---- MODULE Spec2Model ----
(***************************************************************************)
(* n0conflict: the conflict-block scanner (conflict.py), the presence      *)
(* probe (has_conflicts) and the resolve command's splice loop (main.py).  *)
(*                                                                         *)
(* A text is a sequence of one-character strings.  Line numbers kept by    *)
(* the scanner are Python's: the index i is 0-based, lines[i] of the       *)
(* source is lines[i + 1] here.                                            *)
(***************************************************************************)
EXTENDS Integers, Sequences, FiniteSets, TLC

(***************************************************************************)
(* Bounds of the model.                                                    *)
(***************************************************************************)
\* longest text, in lines, over the core line alphabet
MaxLines == 6
\* longest text, in lines, over the wide line alphabet
MaxShort == 3
\* longest model response, in pieces
MaxPieces == 4

(***************************************************************************)
(* Program constants.                                                      *)
(***************************************************************************)
\* "<<<<<<<", "=======", ">>>>>>>" are 7 characters long
TokenLen == 7
\* line[8:] skips the token and the character after it
LabelOffset == 8

Rep(c, n) == [k \in 1..n |-> c]

OpenToken == Rep("<", TokenLen)
SepToken == Rep("=", TokenLen)
CloseToken == Rep(">", TokenLen)

(***************************************************************************)
(* str operations, as Python computes them.                                *)
(***************************************************************************)
\* s.startswith(p)
StartsWith(s, p) == Len(s) >= Len(p) /\ SubSeq(s, 1, Len(p)) = p

\* s[n:]
SliceFrom(s, n) == SubSeq(s, n + 1, Len(s))

\* s.rstrip(chars)
RECURSIVE RStrip(_, _)
RStrip(s, chars) ==
    IF s # <<>> /\ s[Len(s)] \in chars
    THEN RStrip(SubSeq(s, 1, Len(s) - 1), chars)
    ELSE s

\* "".join(ls)
RECURSIVE Join(_)
Join(ls) == IF ls = <<>> THEN <<>> ELSE Head(ls) \o Join(Tail(ls))

\* the line boundaries of str.splitlines that the model's alphabet holds
\* (Python also splits at \v, \x1c, \x1d, \x1e, \x85, U+2028 and U+2029)
LineBoundaries == {"\n", "\r", "\f"}

\* position p of s ends a line: a boundary character that is not the "\r"
\* of a "\r\n"
IsBreak(s, p) ==
    s[p] \in LineBoundaries /\ ~(s[p] = "\r" /\ p < Len(s) /\ s[p + 1] = "\n")

\* the last position of the line of s that starts at position k
LineEnd(s, k) ==
    IF \E p \in k..Len(s) : IsBreak(s, p)
    THEN CHOOSE p \in k..Len(s) :
             IsBreak(s, p) /\ \A q \in k..(p - 1) : ~IsBreak(s, q)
    ELSE Len(s)

\* the length of the terminator that ends the line k..e of s
TerminatorLen(s, k, e) ==
    IF ~IsBreak(s, e) THEN 0
    ELSE IF s[e] = "\n" /\ e > k /\ s[e - 1] = "\r" THEN 2
    ELSE 1

\* content.splitlines(keepends=False): the mutation of SplitFrom
RECURSIVE SplitFromDropEnds(_, _)
SplitFromDropEnds(s, k) ==
    IF k > Len(s) THEN <<>>
    ELSE LET e == LineEnd(s, k)
         IN <<SubSeq(s, k, e - TerminatorLen(s, k, e))>> \o SplitFromDropEnds(s, e + 1)

\* content.splitlines(keepends=True), from position k of s on
RECURSIVE SplitFrom(_, _)
SplitFrom(s, k) ==
    IF k > Len(s) THEN <<>>
    ELSE LET e == LineEnd(s, k)
         IN <<SubSeq(s, k, e)>> \o SplitFrom(s, e + 1)

SplitLines(content) == SplitFrom(content, 1)

\* sub occurs in s at (1-based) position p
OccursAt(s, sub, p) ==
    p >= 1 /\ p + Len(sub) - 1 <= Len(s) /\ SubSeq(s, p, p + Len(sub) - 1) = sub

\* sub in s
IsSubstring(sub, s) == \E p \in 1..(Len(s) + 1) : OccursAt(s, sub, p)

\* s.find(sub) + 1; 0 when sub does not occur
Find(s, sub) ==
    IF IsSubstring(sub, s)
    THEN CHOOSE p \in 1..(Len(s) + 1) :
             OccursAt(s, sub, p) /\ \A q \in 1..(p - 1) : ~OccursAt(s, sub, q)
    ELSE 0

\* s.replace(old, new) with no count, every occurrence replaced from the left:
\* the mutation of ReplaceFirst
RECURSIVE ReplaceAll(_, _, _)
ReplaceAll(s, old, new) ==
    LET p == Find(s, old)
    IN IF p = 0 \/ old = <<>> THEN s
       ELSE SubSeq(s, 1, p - 1) \o new
                \o ReplaceAll(SubSeq(s, p + Len(old), Len(s)), old, new)

\* s.replace(old, new, 1)
ReplaceFirst(s, old, new) ==
    LET p == Find(s, old)
    IN IF p = 0 THEN s
       ELSE SubSeq(s, 1, p - 1) \o new \o SubSeq(s, p + Len(old), Len(s))

\* text-mode read with newline=None: "\r\n" and "\r" become "\n"
RECURSIVE UniversalNewlines(_)
UniversalNewlines(s) ==
    IF s = <<>> THEN <<>>
    ELSE IF s[1] = "\r" /\ Len(s) >= 2 /\ s[2] = "\n"
         THEN <<"\n">> \o UniversalNewlines(SubSeq(s, 3, Len(s)))
    ELSE IF s[1] = "\r" THEN <<"\n">> \o UniversalNewlines(Tail(s))
    ELSE <<s[1]>> \o UniversalNewlines(Tail(s))

\* path.read_text(...) of a readable file holding data
read_text(data) == UniversalNewlines(data)

\* the pattern searched without the "^" anchor: the mutation of _CONFLICT_START
_CONFLICT_START_Unanchored(content) ==
    \E p \in 1..Len(content) : OccursAt(content, Append(OpenToken, " "), p)

\* re.compile(r"^<{7} ", re.MULTILINE).search(content): "^" matches at the
\* start of the text and right after a "\n", and nowhere else
_CONFLICT_START(content) ==
    \E p \in 1..Len(content) :
        /\ (p = 1 \/ content[p - 1] = "\n")
        /\ OccursAt(content, Append(OpenToken, " "), p)

(***************************************************************************)
(* parse_conflicts, conflict.py 21-80.  A frame holds the locals of one    *)
(* call; one step examines one line (or finds the input exhausted).        *)
(***************************************************************************)
ParseInit(content) ==
    [pc |-> "seek", lines |-> SplitLines(content), i |-> 0, conflicts |-> <<>>,
     start_line |-> 0, ours_label |-> <<>>, block_lines |-> <<>>,
     ours_lines |-> <<>>, theirs_lines |-> <<>>]

\* the loop conditions' i < len(lines), negated
AtEnd(f) == f.i >= Len(f.lines)
\* lines[i]
Cur(f) == f.lines[f.i + 1]

IsOpen(line) == StartsWith(line, OpenToken)
IsSeparator(line) == StartsWith(line, SepToken)
IsClose(line) == StartsWith(line, CloseToken)

\* line[8:].rstrip("\r\n")
Label(line) == RStrip(SliceFrom(line, LabelOffset), {"\r", "\n"})

\* start_line = i: the mutation of StartLine
StartLineZeroBased(i) == i
\* start_line = i + 1
StartLine(i) == i + 1
\* end_line = i: the mutation of EndLine
EndLineZeroBased(i) == i
\* end_line = i + 1
EndLine(i) == i + 1

ConflictBlock(f, closing) ==
    [ours_label |-> f.ours_label,
     ours |-> Join(f.ours_lines),
     theirs_label |-> Label(closing),
     theirs |-> Join(f.theirs_lines),
     start |-> f.start_line,
     end |-> EndLine(f.i),
     raw |-> Join(Append(f.block_lines, closing))]

\* while i < len(lines) fails: return conflicts
SeekEndStep(f) == [f EXCEPT !.pc = "return"]
\* not line.startswith("<<<<<<<"): i += 1; continue
SeekSkipStep(f) == [f EXCEPT !.i = f.i + 1]
\* the opening marker: lines 34-40
SeekOpenStep(f) ==
    [f EXCEPT !.pc = "ours", !.start_line = StartLine(f.i),
              !.ours_label = Label(Cur(f)), !.block_lines = <<Cur(f)>>,
              !.ours_lines = <<>>, !.i = f.i + 1]
\* an ours line passed over without being kept in ours_lines: the mutation
\* of OursCollectStep
OursCollectStepDrop(f) ==
    [f EXCEPT !.block_lines = Append(f.block_lines, Cur(f)), !.i = f.i + 1]
\* lines 42-44
OursCollectStep(f) ==
    [f EXCEPT !.ours_lines = Append(f.ours_lines, Cur(f)),
              !.block_lines = Append(f.block_lines, Cur(f)), !.i = f.i + 1]
\* an abandoned sequence answered by scanning again from the line after its
\* opening marker: the mutation of OursBreakStep
OursBreakStepRewind(f) == [f EXCEPT !.pc = "seek", !.i = f.start_line]
\* lines 46-47: if i >= len(lines): break
OursBreakStep(f) == [f EXCEPT !.pc = "return"]
\* the separator line also appended to ours_lines: the mutation of OursSeparatorStep
OursSeparatorStepKeep(f) ==
    [f EXCEPT !.pc = "theirs", !.block_lines = Append(f.block_lines, Cur(f)),
              !.ours_lines = Append(f.ours_lines, Cur(f)),
              !.theirs_lines = <<>>, !.i = f.i + 1]
\* lines 49-53: the separator line
OursSeparatorStep(f) ==
    [f EXCEPT !.pc = "theirs", !.block_lines = Append(f.block_lines, Cur(f)),
              !.theirs_lines = <<>>, !.i = f.i + 1]
\* lines 55-57
TheirsCollectStep(f) ==
    [f EXCEPT !.theirs_lines = Append(f.theirs_lines, Cur(f)),
              !.block_lines = Append(f.block_lines, Cur(f)), !.i = f.i + 1]
\* the end of input taken as a closing marker: the mutation of TheirsBreakStep
TheirsBreakStepEmit(f) ==
    [f EXCEPT !.pc = "return",
              !.conflicts = Append(f.conflicts,
                  [ours_label |-> f.ours_label, ours |-> Join(f.ours_lines),
                   theirs_label |-> <<>>, theirs |-> Join(f.theirs_lines),
                   start |-> f.start_line, end |-> f.i, raw |-> Join(f.block_lines)])]
\* lines 59-60: if i >= len(lines): break
TheirsBreakStep(f) == [f EXCEPT !.pc = "return"]
\* the scan resumed one line too far: the mutation of TheirsCloseStep
TheirsCloseStepSkip(f) ==
    [f EXCEPT !.pc = "seek",
              !.conflicts = Append(f.conflicts, ConflictBlock(f, Cur(f))),
              !.block_lines = Append(f.block_lines, Cur(f)), !.i = f.i + 2]
\* lines 62-78: the closing marker; the block is appended, scanning resumes
TheirsCloseStep(f) ==
    [f EXCEPT !.pc = "seek",
              !.conflicts = Append(f.conflicts, ConflictBlock(f, Cur(f))),
              !.block_lines = Append(f.block_lines, Cur(f)), !.i = f.i + 1]

ParseStep(f) ==
    CASE f.pc = "seek" /\ AtEnd(f) -> SeekEndStep(f)
      [] f.pc = "seek" /\ ~AtEnd(f) /\ ~IsOpen(Cur(f)) -> SeekSkipStep(f)
      [] f.pc = "seek" /\ ~AtEnd(f) /\ IsOpen(Cur(f)) -> SeekOpenStep(f)
      [] f.pc = "ours" /\ ~AtEnd(f) /\ ~IsSeparator(Cur(f)) -> OursCollectStep(f)
      [] f.pc = "ours" /\ AtEnd(f) -> OursBreakStep(f)
      [] f.pc = "ours" /\ ~AtEnd(f) /\ IsSeparator(Cur(f)) -> OursSeparatorStep(f)
      [] f.pc = "theirs" /\ ~AtEnd(f) /\ ~IsClose(Cur(f)) -> TheirsCollectStep(f)
      [] f.pc = "theirs" /\ AtEnd(f) -> TheirsBreakStep(f)
      [] f.pc = "theirs" /\ ~AtEnd(f) /\ IsClose(Cur(f)) -> TheirsCloseStep(f)

RECURSIVE ParseRun(_)
ParseRun(f) == IF f.pc = "return" THEN f ELSE ParseRun(ParseStep(f))

\* the whole call
parse_conflicts(content) == ParseRun(ParseInit(content)).conflicts

\* Path.read_text, conflict.py 86: the exception the read raises, "none" when
\* the file can be opened and read (errors="replace" rules out decode errors)
read_text_raises(readable) == IF readable THEN "none" ELSE "OSError"

\* has_conflicts with the read failure answered by True: the mutation of
\* has_conflicts
has_conflicts_FailClosed(readable, data) ==
    IF readable THEN _CONFLICT_START(read_text(data)) ELSE TRUE

\* has_conflicts, conflict.py 85-89: the exception that leaves the call; the
\* except clause catches OSError and nothing else
has_conflicts_raises(readable) ==
    IF read_text_raises(readable) = "OSError" THEN "none"
    ELSE read_text_raises(readable)

\* has_conflicts, conflict.py 83-89: False when the read raises OSError
has_conflicts(readable, data) ==
    IF readable THEN _CONFLICT_START(read_text(data)) ELSE FALSE

(***************************************************************************)
(* The resolver's reading of a model response (resolver.py).               *)
(***************************************************************************)
\* the characters str.strip() removes that the model's alphabet holds
Whitespace == {" ", "\t", "\n", "\r", "\f"}

\* s.lstrip()
RECURSIVE LStrip(_, _)
LStrip(s, chars) ==
    IF s # <<>> /\ s[1] \in chars THEN LStrip(Tail(s), chars) ELSE s

\* s.strip()
Strip(s) == LStrip(RStrip(s, Whitespace), Whitespace)

\* "RESOLVED:"
ResolvedPrefix == <<"R", "E", "S", "O", "L", "V", "E", "D", ":">>
\* "CANNOT_RESOLVE:"
CannotResolvePrefix ==
    <<"C", "A", "N", "N", "O", "T", "_", "R", "E", "S", "O", "L", "V",
      "E", ":">>

\* "Conflict resolved successfully."
ResolvedExplanation ==
    <<"C", "o", "n", "f", "l", "i", "c", "t", " ", "r", "e", "s", "o",
      "l", "v", "e", "d", " ", "s", "u", "c", "c", "e", "s", "s", "f",
      "u", "l", "l", "y", ".">>
\* "Conflict resolved."
FallbackExplanation ==
    <<"C", "o", "n", "f", "l", "i", "c", "t", " ", "r", "e", "s", "o",
      "l", "v", "e", "d", ".">>
\* "API returned an empty response."
EmptyResponseExplanation ==
    <<"A", "P", "I", " ", "r", "e", "t", "u", "r", "n", "e", "d", " ",
      "a", "n", " ", "e", "m", "p", "t", "y", " ", "r", "e", "s", "p",
      "o", "n", "s", "e", ".">>

\* the dataclass ResolutionResult
ResolutionResult(resolved, content, explanation) ==
    [resolved |-> resolved, content |-> content, explanation |-> explanation]

\* _parse_response with the text after the prefix taken as it stands, not
\* stripped: the mutation of _parse_response
_parse_response_KeepRemainder(text) ==
    LET t == Strip(text)
    IN IF StartsWith(t, ResolvedPrefix)
       THEN ResolutionResult(TRUE, SliceFrom(t, Len(ResolvedPrefix)),
                             ResolvedExplanation)
       ELSE IF StartsWith(t, CannotResolvePrefix)
       THEN ResolutionResult(FALSE, <<>>, SliceFrom(t, Len(CannotResolvePrefix)))
       ELSE ResolutionResult(TRUE, t, FallbackExplanation)

\* _parse_response, resolver.py 77-102
_parse_response(text) ==
    LET t == Strip(text)
    IN IF StartsWith(t, ResolvedPrefix)
       THEN ResolutionResult(TRUE, Strip(SliceFrom(t, Len(ResolvedPrefix))),
                             ResolvedExplanation)
       ELSE IF StartsWith(t, CannotResolvePrefix)
       THEN ResolutionResult(FALSE, <<>>,
                             Strip(SliceFrom(t, Len(CannotResolvePrefix))))
       ELSE ResolutionResult(TRUE, t, FallbackExplanation)

\* AIResolver.resolve, resolver.py 68-73: the API answered with no content
EmptyResponseResult == ResolutionResult(FALSE, <<>>, EmptyResponseExplanation)

(***************************************************************************)
(* Input texts.                                                            *)
(***************************************************************************)
LineOpen == OpenToken \o <<" ", "a", "\n">>
LineSep == SepToken \o <<"\n">>
LineClose == CloseToken \o <<" ", "b", "/", "c", "\n">>
LinePlain == <<"a", "\n">>
\* an opening token with no space after it
LineOpenNoSpace == OpenToken \o <<"a", "\n">>
\* a closing marker of a CRLF file
LineCloseCRLF == CloseToken \o <<" ", "b", "\r", "\n">>
\* a closing token with no space after it
LineCloseNoSpace == CloseToken \o <<"b", "\n">>
\* a line ended by a form feed
LineFormFeed == <<"a", "\f">>

CoreLines == {LineOpen, LineSep, LineClose, LinePlain}
WideLines ==
    CoreLines \cup {LineOpenNoSpace, LineCloseCRLF, LineCloseNoSpace, LineFormFeed}

\* the texts of at most n lines drawn from choices
RECURSIVE Texts(_, _)
Texts(n, choices) ==
    IF n = 0 THEN {<<>>}
    ELSE {<<>>} \cup {l \o t : l \in choices, t \in Texts(n - 1, choices)}

\* texts whose first line starts with "x" and then holds what would
\* otherwise be a marker or separator line: marker text not at line start
MidLineTexts == {<<"x">> \o t : t \in Texts(MaxLines, {LineOpen, LineSep, LineClose})}

Inputs ==
    Texts(MaxLines, CoreLines) \cup MidLineTexts \cup Texts(MaxShort, WideLines)

\* the data of the files that cannot be read
UnreadableInputs == Texts(2, WideLines)

\* what resolver.resolve can return to the command: resolver.py 68-74 and
\* _parse_response, whose content is stripped and is empty when not resolved
Resolutions == {<<>>, <<"a">>, LineOpen \o LineSep \o LineClose \o <<"a">>}
ResolutionResults ==
    {[resolved |-> TRUE, content |-> r] : r \in Resolutions}
        \cup {[resolved |-> FALSE, content |-> <<>>]}

\* model responses: the two prefixes, a prefix without its colon, whitespace
\* and a letter, in every order
ResponsePieces ==
    {ResolvedPrefix, CannotResolvePrefix, SubSeq(ResolvedPrefix, 1, 8),
     <<" ">>, <<"\n">>, <<"a">>}
Responses == Texts(MaxPieces, ResponsePieces)

VARIABLES
    text,       \* the text under test: the argument of parse_conflicts
    file,       \* the file holding it: [readable, data]
    scan,       \* the frame of the parse_conflicts(text) call
    probe,      \* the has_conflicts(file) call: [called, result, raised]
    cmd,        \* the locals of the resolve command run on file
    reply,      \* one model response and the resolver's reading of it
    expl        \* the explain command run on file: [pc, outcome, first, last]

vars == <<text, file, scan, probe, cmd, reply, expl>>

\* the explain command before it runs
ExplInit == [pc |-> "idle", outcome |-> "none", first |-> 0, last |-> 0]

\* explain, main.py 198-224, on a file that exists: what the command ends
\* with.  Past the has_conflicts gate the header line reads conflicts[0] and
\* conflicts[-1] (lines 212-214) with no test for an empty list.
explain(readable, data) ==
    IF ~has_conflicts(readable, data)
    THEN [pc |-> "done", outcome |-> "no_conflicts", first |-> 0, last |-> 0]
    ELSE LET conflicts == parse_conflicts(read_text(data))
         IN IF conflicts = <<>>
            THEN [pc |-> "done", outcome |-> "IndexError", first |-> 0, last |-> 0]
            ELSE [pc |-> "done", outcome |-> "shown",
                  first |-> conflicts[1].start,
                  last |-> conflicts[Len(conflicts)].end]

\* the response as received, before the resolver has looked at it
ReplyInit(response) ==
    [pc |-> "received", text |-> response,
     result |-> ResolutionResult(FALSE, <<>>, <<>>)]

CmdInit ==
    [pc |-> "idle", content |-> <<>>, conflicts |-> <<>>, resolved_content |-> <<>>,
     all_resolved |-> TRUE, idx |-> 1, results |-> <<>>, outcome |-> "none",
     write |-> FALSE, dry_run |-> FALSE]

Init ==
    /\ \/ text \in Inputs /\ file = [readable |-> TRUE, data |-> text]
       \/ text \in UnreadableInputs /\ file = [readable |-> FALSE, data |-> text]
    /\ scan = ParseInit(text)
    /\ probe = [called |-> FALSE, result |-> FALSE, raised |-> "none"]
    /\ cmd = CmdInit
    /\ reply = ReplyInit(<<>>)
    /\ expl = ExplInit

(***************************************************************************)
(* The direct call parse_conflicts(text), line by line.                    *)
(***************************************************************************)
SeekEnd ==
    /\ scan.pc = "seek" /\ AtEnd(scan)
    /\ scan' = SeekEndStep(scan) /\ UNCHANGED <<text, file, probe, cmd, reply, expl>>
SeekSkip ==
    /\ scan.pc = "seek" /\ ~AtEnd(scan) /\ ~IsOpen(Cur(scan))
    /\ scan' = SeekSkipStep(scan) /\ UNCHANGED <<text, file, probe, cmd, reply, expl>>
SeekOpen ==
    /\ scan.pc = "seek" /\ ~AtEnd(scan) /\ IsOpen(Cur(scan))
    /\ scan' = SeekOpenStep(scan) /\ UNCHANGED <<text, file, probe, cmd, reply, expl>>
OursCollect ==
    /\ scan.pc = "ours" /\ ~AtEnd(scan) /\ ~IsSeparator(Cur(scan))
    /\ scan' = OursCollectStep(scan) /\ UNCHANGED <<text, file, probe, cmd, reply, expl>>
OursBreak ==
    /\ scan.pc = "ours" /\ AtEnd(scan)
    /\ scan' = OursBreakStep(scan) /\ UNCHANGED <<text, file, probe, cmd, reply, expl>>
OursSeparator ==
    /\ scan.pc = "ours" /\ ~AtEnd(scan) /\ IsSeparator(Cur(scan))
    /\ scan' = OursSeparatorStep(scan) /\ UNCHANGED <<text, file, probe, cmd, reply, expl>>
TheirsCollect ==
    /\ scan.pc = "theirs" /\ ~AtEnd(scan) /\ ~IsClose(Cur(scan))
    /\ scan' = TheirsCollectStep(scan) /\ UNCHANGED <<text, file, probe, cmd, reply, expl>>
TheirsBreak ==
    /\ scan.pc = "theirs" /\ AtEnd(scan)
    /\ scan' = TheirsBreakStep(scan) /\ UNCHANGED <<text, file, probe, cmd, reply, expl>>
TheirsClose ==
    /\ scan.pc = "theirs" /\ ~AtEnd(scan) /\ IsClose(Cur(scan))
    /\ scan' = TheirsCloseStep(scan) /\ UNCHANGED <<text, file, probe, cmd, reply, expl>>

(***************************************************************************)
(* The call has_conflicts(file), made once the scan has returned.          *)
(***************************************************************************)
HasConflicts ==
    /\ scan.pc = "return" /\ ~probe.called
    /\ probe' = [called |-> TRUE,
                 result |-> has_conflicts(file.readable, file.data),
                 raised |-> has_conflicts_raises(file.readable)]
    /\ UNCHANGED <<text, file, scan, cmd, reply, expl>>

(***************************************************************************)
(* The resolve command, main.py 74-147, run on file.                       *)
(***************************************************************************)
\* lines 84-106, up to the first iteration of the loop
ResolveStart ==
    /\ probe.called /\ cmd.pc = "idle" /\ expl.pc = "idle"
    /\ IF ~has_conflicts(file.readable, file.data)
       THEN cmd' = [cmd EXCEPT !.pc = "done", !.outcome = "no_conflicts"]
       ELSE LET content == read_text(file.data)
                conflicts == parse_conflicts(content)
            IN IF conflicts = <<>>
               THEN cmd' = [cmd EXCEPT !.pc = "done", !.content = content,
                                       !.outcome = "no_conflicts"]
               ELSE cmd' = [cmd EXCEPT !.pc = "loop", !.content = content,
                                       !.conflicts = conflicts,
                                       !.resolved_content = content,
                                       !.all_resolved = TRUE, !.idx = 1]
    /\ UNCHANGED <<text, file, scan, probe, reply, expl>>

\* lines 108-130: one iteration of the loop, result being what the resolver returned
ResolveBlock ==
    /\ cmd.pc = "loop"
    /\ \E result \in ResolutionResults :
        LET conflict == cmd.conflicts[cmd.idx]
        IN cmd' = [cmd EXCEPT
                     !.resolved_content =
                         IF result.resolved
                         THEN ReplaceFirst(cmd.resolved_content, conflict.raw, result.content)
                         ELSE cmd.resolved_content,
                     !.all_resolved = IF result.resolved THEN cmd.all_resolved ELSE FALSE,
                     !.results = Append(cmd.results, result),
                     !.idx = cmd.idx + 1,
                     !.pc = IF cmd.idx = Len(cmd.conflicts) THEN "finish" ELSE "loop"]
    /\ UNCHANGED <<text, file, scan, probe, reply, expl>>

\* the branches of lines 132-147 with --write looked at before --dry-run:
\* the mutation of FinishOutcome
FinishOutcomeWriteFirst(all_resolved, write, dry_run) ==
    IF ~all_resolved THEN "manual"
    ELSE IF write THEN "written"
    ELSE IF dry_run THEN "preview"
    ELSE "tip"

\* the branch lines 132-147 take: "manual" returns at 134, "preview" prints
\* the buffer, "written" is file.write_text at 143, "tip" prints the hint
FinishOutcome(all_resolved, write, dry_run) ==
    IF ~all_resolved THEN "manual"
    ELSE IF dry_run THEN "preview"
    ELSE IF write THEN "written"
    ELSE "tip"

\* lines 132-147, under the command line's --write and --dry-run
ResolveFinish ==
    /\ cmd.pc = "finish"
    /\ \E write \in BOOLEAN, dry_run \in BOOLEAN :
        LET outcome == FinishOutcome(cmd.all_resolved, write, dry_run)
        IN /\ cmd' = [cmd EXCEPT !.pc = "done", !.outcome = outcome,
                                 !.write = write, !.dry_run = dry_run]
           /\ IF outcome = "written"
              THEN file' = [file EXCEPT !.data = cmd.resolved_content]
              ELSE UNCHANGED file
    /\ UNCHANGED <<text, scan, probe, reply, expl>>

\* the explain command, run on the file in place of the resolve command
Explain ==
    /\ probe.called /\ cmd.pc = "idle" /\ expl.pc = "idle"
    /\ expl' = explain(file.readable, file.data)
    /\ UNCHANGED <<text, file, scan, probe, cmd, reply>>

Next ==
    \/ SeekEnd \/ SeekSkip \/ SeekOpen
    \/ OursCollect \/ OursBreak \/ OursSeparator
    \/ TheirsCollect \/ TheirsBreak \/ TheirsClose
    \/ HasConflicts
    \/ ResolveStart \/ ResolveBlock \/ ResolveFinish
    \/ Explain

\* the steps of the parse_conflicts call
ParseNext ==
    \/ SeekEnd \/ SeekSkip \/ SeekOpen
    \/ OursCollect \/ OursBreak \/ OursSeparator
    \/ TheirsCollect \/ TheirsBreak \/ TheirsClose

Spec == Init /\ [][Next]_vars

\* a call that has started runs on: no step of parse_conflicts waits for
\* anything outside the call
SpecFair == Spec /\ WF_vars(ParseNext)

(***************************************************************************)
(* The resolver alone: one response, read once.                            *)
(***************************************************************************)
InitResponse ==
    /\ text = <<>> /\ file = [readable |-> TRUE, data |-> <<>>]
    /\ scan = ParseInit(<<>>)
    /\ probe = [called |-> FALSE, result |-> FALSE, raised |-> "none"]
    /\ cmd = CmdInit
    /\ \E response \in Responses : reply = ReplyInit(response)
    /\ expl = ExplInit

\* resolver.py 68-73: response.content is empty, the text is never read
EmptyResponse ==
    /\ reply.pc = "received"
    /\ reply' = [reply EXCEPT !.pc = "empty", !.result = EmptyResponseResult]
    /\ UNCHANGED <<text, file, scan, probe, cmd, expl>>

\* resolver.py 74: return _parse_response(response.content[0].text)
ParseResponse ==
    /\ reply.pc = "received"
    /\ reply' = [reply EXCEPT !.pc = "parsed", !.result = _parse_response(reply.text)]
    /\ UNCHANGED <<text, file, scan, probe, cmd, expl>>

NextResponse == EmptyResponse \/ ParseResponse

SpecResponse == InitResponse /\ [][NextResponse]_vars

(***************************************************************************)
(* Properties.  Returned: the direct call parse_conflicts(text) is over    *)
(* and scan.conflicts is its result; InputLines are the lines of its       *)
(* argument, numbered from 1.                                              *)
(***************************************************************************)
Returned == scan.pc = "return"
InputLines == SplitLines(text)
Blocks == {scan.conflicts[k] : k \in 1..Len(scan.conflicts)}
AnyLine(t, tok) ==
    LET ls == SplitLines(t) IN \E n \in 1..Len(ls) : StartsWith(ls[n], tok)

\* C1: every block returned by parse_conflicts has a raw that is a literal
\* contiguous substring of the input, and an ours and a theirs that are
\* literal contiguous substrings of that raw.
C1_RawIsLiteralSubstring ==
    Returned =>
        \A b \in Blocks :
            /\ IsSubstring(b.raw, text)
            /\ IsSubstring(b.ours, b.raw)
            /\ IsSubstring(b.theirs, b.raw)

\* a returned block with both sides non-empty, inside a longer text
C1_Witness ==
    /\ Returned
    /\ \E b \in Blocks : b.ours # <<>> /\ b.theirs # <<>> /\ Len(b.raw) < Len(text)

\* C2: the returned blocks are in strictly ascending start order and their
\* inclusive line ranges [start, end] are pairwise disjoint; consecutive
\* blocks satisfy b_k.end < b_k+1.start.
C2_AscendingDisjoint ==
    Returned =>
        /\ \A k \in 1..(Len(scan.conflicts) - 1) :
               /\ scan.conflicts[k].start < scan.conflicts[k + 1].start
               /\ scan.conflicts[k].end < scan.conflicts[k + 1].start
        /\ \A j, k \in 1..Len(scan.conflicts) :
               j < k =>
                   (scan.conflicts[j].start..scan.conflicts[j].end)
                       \cap (scan.conflicts[k].start..scan.conflicts[k].end) = {}

\* two blocks returned, the second opening on the line after the first closes
C2_Witness ==
    /\ Returned
    /\ Len(scan.conflicts) = 2
    /\ scan.conflicts[2].start = scan.conflicts[1].end + 1

\* C3: soundness of the pre-filter: when has_conflicts returns false for a
\* readable file holding a text, parse_conflicts on that text returns the
\* empty sequence.
C3_PrefilterSound ==
    (Returned /\ probe.called /\ file.readable /\ ~probe.result) =>
        (scan.conflicts = <<>> /\ parse_conflicts(read_text(file.data)) = <<>>)

\* C4: neither ours nor theirs of a returned block contains a marker line
\* (starting with "<<<<<<<" or ">>>>>>>") or a separator line (starting
\* with "=======").
C4_NoMarkerOrSeparatorInSides ==
    Returned =>
        \A b \in Blocks : \A tok \in {OpenToken, CloseToken, SepToken} :
            ~AnyLine(b.ours, tok) /\ ~AnyLine(b.theirs, tok)

\* C4, amended: ours of a returned block contains no separator line and
\* theirs contains no closing-marker line; ours may hold marker lines and
\* theirs may hold opening-marker and separator lines.
C4_NoSeparatorInOursNoCloseInTheirs ==
    Returned =>
        \A b \in Blocks : ~AnyLine(b.ours, SepToken) /\ ~AnyLine(b.theirs, CloseToken)

\* a returned block whose ours holds a closing-marker line and whose theirs
\* holds a separator line
C4_Witness ==
    /\ Returned
    /\ \E b \in Blocks : AnyLine(b.ours, CloseToken) /\ AnyLine(b.theirs, SepToken)

\* in the lines ls the opening marker at line n has no separator line
\* followed by a closing marker line after it
IncompleteAfter(ls, n) ==
    ~\E j, k \in (n + 1)..Len(ls) :
        j < k /\ StartsWith(ls[j], SepToken) /\ StartsWith(ls[k], CloseToken)

\* the last opening marker the scan took is such a marker
LastSequenceIncomplete ==
    scan.start_line > 0 /\ IncompleteAfter(InputLines, scan.start_line)

\* the text before line n of ls
TextBefore(ls, n) == Join(SubSeq(ls, 1, n - 1))

\* C5: when the input ends after an opening marker before a separator line,
\* or after the separator before a closing marker line, parse_conflicts
\* emits no block for that sequence, stops at the end of the input and
\* returns exactly the blocks completed before that opening marker; an
\* input whose only opening marker has no following separator yields none.
C5_IncompleteSequenceDropped ==
    Returned =>
        LET ls == InputLines
            opens == {n \in 1..Len(ls) : StartsWith(ls[n], OpenToken)}
            seps == {n \in 1..Len(ls) : StartsWith(ls[n], SepToken)}
        IN /\ (scan.start_line > 0 /\ IncompleteAfter(ls, scan.start_line)) =>
                  /\ scan.i = Len(ls)
                  /\ \A b \in Blocks : b.end < scan.start_line
                  /\ scan.conflicts = parse_conflicts(TextBefore(ls, scan.start_line))
           /\ (Cardinality(opens) = 1 /\ \A n \in opens : \A m \in seps : m < n) =>
                  scan.conflicts = <<>>

\* a call that returned with its second sequence cut short after the
\* separator, the first sequence returned as a block
C5_Witness ==
    /\ Returned /\ LastSequenceIncomplete
    /\ Len(scan.conflicts) = 1
    /\ \E j \in (scan.start_line + 1)..Len(InputLines) :
           StartsWith(InputLines[j], SepToken)

\* C6: for every returned block start <= end, start and end are the
\* 1-indexed numbers of the opening and closing marker lines, and raw is
\* the concatenation of the input lines start..end, which is opening line +
\* ours + separator line + theirs + closing line.
C6_RawSpansStartToEnd ==
    Returned =>
        LET ls == InputLines
        IN \A b \in Blocks :
               /\ 1 <= b.start /\ b.start <= b.end /\ b.end <= Len(ls)
               /\ StartsWith(ls[b.start], OpenToken)
               /\ StartsWith(ls[b.end], CloseToken)
               /\ b.raw = Join(SubSeq(ls, b.start, b.end))
               /\ \E j \in (b.start + 1)..(b.end - 1) :
                      /\ StartsWith(ls[j], SepToken)
                      /\ b.raw = ls[b.start] \o b.ours \o ls[j] \o b.theirs \o ls[b.end]

\* a returned block that opens after the first line, both sides non-empty
C6_Witness ==
    /\ Returned
    /\ \E b \in Blocks : b.start > 1 /\ b.ours # <<>> /\ b.theirs # <<>>
\* the text the claim C7 expects: each block's lines start..end replaced by
\* the content resolved for it, every other line of ls kept
RECURSIVE SpliceByRange(_, _, _, _)
SpliceByRange(ls, bs, rs, n) ==
    IF n > Len(ls) THEN <<>>
    ELSE IF \E k \in 1..Len(bs) : bs[k].start = n
         THEN LET k == CHOOSE k \in 1..Len(bs) : bs[k].start = n
              IN rs[k].content \o SpliceByRange(ls, bs, rs, bs[k].end + 1)
    ELSE ls[n] \o SpliceByRange(ls, bs, rs, n + 1)

\* C7: in the resolve workflow, when every block is resolved, the final
\* buffer is the original content with each block's own lines start..end
\* replaced by that block's resolution text and everything outside the
\* blocks unchanged, for every content and every choice of resolutions.
C7_SpliceReplacesOwnSpan ==
    (cmd.pc \in {"finish", "done"} /\ cmd.conflicts # <<>> /\ cmd.all_resolved) =>
        cmd.resolved_content =
            SpliceByRange(SplitLines(cmd.content), cmd.conflicts, cmd.results, 1)

\* the shape the claim C8 speaks of: gaps of lines that start with no marker
\* token, and sequences of an opening line, lines starting with none of the
\* three tokens, a separator line, such lines again, and a closing line
Kind(line) ==
    IF StartsWith(line, OpenToken) THEN "open"
    ELSE IF StartsWith(line, CloseToken) THEN "close"
    ELSE IF StartsWith(line, SepToken) THEN "sep"
    ELSE "plain"

RECURSIVE WellFormedFrom(_, _, _, _)
WellFormedFrom(ls, n, phase, count) ==
    IF n > Len(ls) THEN phase = "gap" /\ count >= 1
    ELSE LET kind == Kind(ls[n])
         IN CASE phase = "gap" /\ kind \in {"plain", "sep"} ->
                     WellFormedFrom(ls, n + 1, "gap", count)
              [] phase = "gap" /\ kind = "open" ->
                     WellFormedFrom(ls, n + 1, "ours", count)
              [] phase = "ours" /\ kind = "plain" ->
                     WellFormedFrom(ls, n + 1, "ours", count)
              [] phase = "ours" /\ kind = "sep" ->
                     WellFormedFrom(ls, n + 1, "theirs", count)
              [] phase = "theirs" /\ kind = "plain" ->
                     WellFormedFrom(ls, n + 1, "theirs", count)
              [] phase = "theirs" /\ kind = "close" ->
                     WellFormedFrom(ls, n + 1, "gap", count + 1)
              [] OTHER -> FALSE

WellFormed(ls) == WellFormedFrom(ls, 1, "gap", 0)

PositionsOf(ls, kind) == {n \in 1..Len(ls) : Kind(ls[n]) = kind}
\* the j-th smallest element of the set S of numbers
Nth(S, j) == CHOOSE p \in S : Cardinality({q \in S : q <= p}) = j

\* C8: for an input made of k >= 1 well-formed conflict sequences separated
\* by zero or more non-marker lines, parse_conflicts returns exactly k
\* blocks, the j-th with start and end at the j-th opening and closing
\* marker lines and ours/theirs equal to the lines between them; the scan
\* resumes on the line right after each closing marker.
C8_WellFormedSequencesFound ==
    Returned =>
        LET ls == InputLines
            opens == PositionsOf(ls, "open")
            closes == PositionsOf(ls, "close")
            seps == PositionsOf(ls, "sep")
        IN WellFormed(ls) =>
               /\ Len(scan.conflicts) = Cardinality(opens)
               /\ \A j \in 1..Len(scan.conflicts) :
                      LET b == scan.conflicts[j]
                          sep == CHOOSE q \in seps : Nth(opens, j) < q /\ q < Nth(closes, j)
                      IN /\ b.start = Nth(opens, j)
                         /\ b.end = Nth(closes, j)
                         /\ b.ours = Join(SubSeq(ls, b.start + 1, sep - 1))
                         /\ b.theirs = Join(SubSeq(ls, sep + 1, b.end - 1))

\* a well-formed input of two sequences, the second right after the first
C8_Witness ==
    /\ Returned /\ WellFormed(InputLines)
    /\ Len(scan.conflicts) = 2
    /\ scan.conflicts[2].start = scan.conflicts[1].end + 1

\* the label the claim C9 describes: the text after the token and after the
\* space that follows it, trailing "\r" and "\n" stripped
LabelAfterTokenAndSpace(line) ==
    LET rest == SliceFrom(line, TokenLen)
    IN RStrip(IF rest # <<>> /\ rest[1] = " " THEN Tail(rest) ELSE rest, {"\r", "\n"})

\* C9: ours_label of a returned block is the text of its opening marker
\* line after the 7-character token and the following space, trailing
\* carriage return and newline stripped, and theirs_label is the same of
\* its closing marker line; no other character of the line is dropped.
C9_LabelsVerbatim ==
    Returned =>
        LET ls == InputLines
        IN \A b \in Blocks :
               /\ b.ours_label = LabelAfterTokenAndSpace(ls[b.start])
               /\ b.theirs_label = LabelAfterTokenAndSpace(ls[b.end])

\* C10: for a readable file, has_conflicts returns true if and only if at
\* least one line of the file, lines as the scanner splits them, begins
\* with the 7-character opening token followed by a space.
C10_PresenceIffOpeningLine ==
    (probe.called /\ file.readable) =>
        (probe.result <=> AnyLine(read_text(file.data), Append(OpenToken, " ")))

\* C11: for an input in which no line starts with the opening marker
\* token, parse_conflicts returns the empty sequence and has_conflicts on a
\* file with that content returns false.
C11_NoOpeningTokenNoConflicts ==
    Returned =>
        LET ls == InputLines
        IN (\A n \in 1..Len(ls) : ~StartsWith(ls[n], OpenToken)) =>
               /\ scan.conflicts = <<>>
               /\ probe.called => ~probe.result

\* a readable file of several lines, none starting with the opening token,
\* one holding the token and a space after its first character; both calls made
C11_Witness ==
    /\ Returned /\ probe.called /\ file.readable
    /\ Len(InputLines) >= 2
    /\ \A n \in 1..Len(InputLines) : ~StartsWith(InputLines[n], OpenToken)
    /\ IsSubstring(Append(OpenToken, " "), text)

\* C12: has_conflicts returns false and raises nothing whenever the file
\* cannot be opened or read; the read failure never reaches the caller.
C12_UnreadableIsFalseNoRaise ==
    (probe.called /\ ~file.readable) =>
        /\ ~probe.result
        /\ probe.raised = "none"

\* has_conflicts was called on an unreadable file whose bytes hold an opening
\* marker line, and the read inside it raised OSError
C12_Witness ==
    /\ probe.called /\ ~file.readable
    /\ read_text_raises(file.readable) = "OSError"
    /\ _CONFLICT_START(read_text(file.data))

\* C13: parse_conflicts starts a candidate block only at a line that starts
\* with the opening token followed by a space; a line that starts with the
\* token but has no space after it, or holds the token elsewhere than at its
\* start, never opens a block.  (The code tests startswith("<<<<<<<") alone.)
C13_OpensOnlyAtTokenAndSpace ==
    LET ls == InputLines
    IN /\ scan.start_line > 0 =>
              StartsWith(ls[scan.start_line], Append(OpenToken, " "))
       /\ \A b \in 1..Len(scan.conflicts) :
              StartsWith(ls[scan.conflicts[b].start], Append(OpenToken, " "))

\* C14: in the resolve loop, at the moment each block is processed its raw
\* text is still a substring of the running buffer, whatever the file holds,
\* whatever the earlier blocks' outcomes and whatever text was spliced in.
C14_RawStillInBuffer ==
    cmd.pc = "loop" =>
        IsSubstring(cmd.conflicts[cmd.idx].raw, cmd.resolved_content)

\* the loop stands at its second block, whose raw text equals the first
\* block's, after a splice that put a whole conflict sequence into the buffer
C14_Witness ==
    /\ cmd.pc = "loop" /\ cmd.idx = 2
    /\ cmd.results[1].resolved
    /\ IsSubstring(cmd.conflicts[2].raw, cmd.results[1].content)
    /\ cmd.conflicts[2].raw = cmd.conflicts[1].raw

\* s[i..j] is s without its surrounding whitespace, said without the strip
\* operators: only whitespace before i and after j, and the slice neither
\* starts nor ends with whitespace
StripSpan(s, i, j) ==
    /\ \A k \in 1..(i - 1) : s[k] \in Whitespace
    /\ \A k \in (j + 1)..Len(s) : s[k] \in Whitespace
    /\ i <= j => s[i] \notin Whitespace /\ s[j] \notin Whitespace

IsStripOf(u, s) ==
    \E i \in 1..(Len(s) + 1), j \in 0..Len(s) :
        StripSpan(s, i, j) /\ u = SubSeq(s, i, j)

\* C15: _parse_response maps every response text to one of two outcomes.
\* With the surrounding whitespace stripped, a text starting with "RESOLVED:"
\* gives resolved with the stripped remainder as content, one starting with
\* "CANNOT_RESOLVE:" gives not resolved, empty content and the stripped
\* remainder as explanation, any other text gives resolved with the whole
\* stripped text as content; and every result that is not resolved, the one
\* for an empty API answer included, has empty content.
C15_ResponseMapping ==
    /\ reply.pc = "parsed" =>
          \E i \in 1..(Len(reply.text) + 1), j \in 0..Len(reply.text) :
              /\ StripSpan(reply.text, i, j)
              /\ LET r == reply.result
                     core == SubSeq(reply.text, i, j)
                 IN /\ r.resolved \in BOOLEAN
                    /\ IF StartsWith(core, ResolvedPrefix)
                       THEN /\ r.resolved
                            /\ IsStripOf(r.content,
                                         SliceFrom(core, Len(ResolvedPrefix)))
                       ELSE IF StartsWith(core, CannotResolvePrefix)
                       THEN /\ ~r.resolved
                            /\ r.content = <<>>
                            /\ IsStripOf(r.explanation,
                                         SliceFrom(core, Len(CannotResolvePrefix)))
                       ELSE r.resolved /\ r.content = core
    /\ reply.pc # "received" =>
          (~reply.result.resolved => reply.result.content = <<>>)

\* a response with whitespace before "RESOLVED:" and whitespace between the
\* prefix and the text after it has been read
C15_Witness ==
    /\ reply.pc = "parsed"
    /\ reply.text = <<" ">> \o ResolvedPrefix \o <<"\n", "a">>
    /\ reply.result.resolved /\ reply.result.content = <<"a">>

\* C16: parse_conflicts terminates on every finite input in a single forward
\* pass.  Every step of the call either examines the line at the index and
\* moves the index one line on, in whichever phase it is, or ends the scan
\* with the index at the number of lines (reached while seeking, or while
\* collecting, the incomplete sequence being abandoned); the index never
\* decreases and never passes the number of lines; and the call returns.
C16_SingleForwardPassTerminates ==
    /\ [][scan' # scan =>
              /\ scan.pc # "return"
              /\ scan'.lines = scan.lines
              /\ \/ /\ scan.i < Len(scan.lines)
                    /\ scan'.i = scan.i + 1
                    /\ scan'.pc # "return"
                 \/ /\ scan.i = Len(scan.lines)
                    /\ scan'.i = scan.i
                    /\ scan'.pc = "return"]_vars
    /\ [](scan.i \in 0..Len(scan.lines))
    /\ <>Returned

\* the call has returned from a text of several lines with one block found
\* and a later sequence abandoned while its theirs side was collected
C16_Witness ==
    /\ Returned /\ scan.i = Len(InputLines)
    /\ Len(scan.conflicts) = 1
    /\ scan.start_line > scan.conflicts[1].end
    /\ scan.theirs_lines # <<>>

\* C17: the resolve command writes to the file only when every block was
\* resolved, --write is set and --dry-run is not; when a block was reported
\* not resolvable, or --dry-run is set, or --write is absent, the file holds
\* what it held, whatever was already replaced in the in-memory buffer.
C17_WriteOnlyWhenAllResolved ==
    /\ cmd.outcome = "written" =>
          /\ cmd.all_resolved /\ cmd.write /\ ~cmd.dry_run
          /\ \A k \in 1..Len(cmd.results) : cmd.results[k].resolved
          /\ file.data = cmd.resolved_content
    /\ (cmd.pc = "done" /\ cmd.outcome # "no_conflicts"
            /\ (cmd.dry_run \/ ~cmd.write
                    \/ \E k \in 1..Len(cmd.results) : ~cmd.results[k].resolved)) =>
          cmd.outcome # "written"
    /\ cmd.outcome # "written" => file.data = text

\* the command ended under --write with one block replaced in the buffer and a
\* later one not resolvable, and under --write --dry-run with all resolved
C17_Witness ==
    /\ cmd.pc = "done" /\ cmd.write
    /\ cmd.resolved_content # cmd.content
    /\ file.data = cmd.content
    /\ \/ ~cmd.dry_run /\ cmd.results[1].resolved /\ ~cmd.results[2].resolved
       \/ cmd.dry_run /\ cmd.all_resolved

\* C18: for every existing readable file the explain command completes
\* without an unhandled error; when has_conflicts is true and parse_conflicts
\* returns no block, explain still finishes normally, as resolve does.
\* (explain indexes conflicts[0] with no test for an empty list.)
C18_ExplainCompletes ==
    (expl.pc = "done" /\ file.readable) => expl.outcome \in {"no_conflicts", "shown"}

\* C19: for every block returned by parse_conflicts, the separator is the
\* first line after the opening marker that starts with "=======" and the
\* closing marker is the first line after that separator that starts with
\* ">>>>>>>"; ours is the lines between marker and separator, none of which
\* starts with "=======", theirs the lines between separator and closing
\* marker, none of which starts with ">>>>>>>", and end >= start + 2.
C19_FirstSeparatorFirstClose ==
    Returned =>
        LET ls == InputLines
        IN \A k \in 1..Len(scan.conflicts) :
               LET b == scan.conflicts[k]
               IN \E sep \in (b.start + 1)..(b.end - 1) :
                      /\ StartsWith(ls[sep], SepToken)
                      /\ \A n \in (b.start + 1)..(sep - 1) : ~StartsWith(ls[n], SepToken)
                      /\ StartsWith(ls[b.end], CloseToken)
                      /\ \A n \in (sep + 1)..(b.end - 1) : ~StartsWith(ls[n], CloseToken)
                      /\ b.ours = Join(SubSeq(ls, b.start + 1, sep - 1))
                      /\ b.theirs = Join(SubSeq(ls, sep + 1, b.end - 1))
                      /\ b.end >= b.start + 2
                      /\ b.end <= Len(ls)

\* a returned block with a second opening line in ours, a second separator
\* line in theirs and a second closing line right after its end
C19_Witness ==
    /\ Returned
    /\ \E k \in 1..Len(scan.conflicts) :
           LET b == scan.conflicts[k]
           IN /\ b.end < Len(InputLines)
              /\ StartsWith(InputLines[b.end + 1], CloseToken)
              /\ StartsWith(b.ours, OpenToken)
              /\ StartsWith(b.theirs, SepToken)

====
